---- MODULE Spec2Model ----
(***************************************************************************)
(* Model of src/vs/workbench/common/resources.ts: the ResourceContextKey   *)
(* synchronizer that derives eight context keys from the active resource   *)
(* and reconciles the two filesystem keys when file system providers are   *)
(* (un)registered.                                                         *)
(*                                                                         *)
(* JavaScript values are tagged records so that `undefined`, booleans,     *)
(* strings and URIs can live in the same context key store:                *)
(*   [t |-> "undefined"], [t |-> "boolean", v |-> b],                      *)
(*   [t |-> "string", v |-> s], [t |-> "object", scheme, fsPath].          *)
(* A scheme is a TLA+ string; a path is a sequence of one-character        *)
(* strings, so that basename/extname are computed, not assumed.            *)
(*                                                                         *)
(* DataUri.parseMetaData, the pure function of the same file, is checked   *)
(* under its own specification ParseSpec: a data URI path is drawn, then   *)
(* parsed.                                                                 *)
(***************************************************************************)
EXTENDS Integers, Sequences, FiniteSets, TLC

VARIABLES ctx, providers, pending, toDispose, listening, disposed,
          threw, returned, lastOp, held,
          dataPath, metadata, parsed

\* the variables of DataUri.parseMetaData: its argument's path, the map it
\* returned and whether it has run
parseVars == <<dataPath, metadata, parsed>>

vars == <<ctx, providers, pending, toDispose, listening, disposed,
          threw, returned, lastOp, held, parseVars>>

(* ---------------------------- bounds ---------------------------------- *)

MaxPathLen == 2

MaxPending == 2

MaxTokens == 2

(* ------------------------- JavaScript values -------------------------- *)

Undefined == [t |-> "undefined"]

TypeError == [t |-> "TypeError"]

Bool(b) == [t |-> "boolean", v |-> b]

Str(s) == [t |-> "string", v |-> s]

Uri(s, p) == [t |-> "object", scheme |-> s, fsPath |-> p]

Truthy(x) ==
    CASE x.t = "undefined" -> FALSE
      [] x.t = "boolean" -> x.v
      [] x.t = "string" -> Len(x.v) > 0
      [] OTHER -> TRUE

\* variant: the guard is dropped and the right operand is always evaluated
JsAndUnguarded(a, b) == b

\* a && b : the left operand when it is falsy, the right operand otherwise
JsAnd(a, b) == IF Truthy(a) THEN b ELSE a

\* a || b : the left operand when it is truthy, the right operand otherwise
JsOr(a, b) == IF Truthy(a) THEN a ELSE b

\* !!a
JsNotNot(a) == Bool(Truthy(a))

\* a === b
StrictEq(a, b) == Bool(a = b)

\* property access: reading a property of undefined raises a TypeError
Prop(value, field) == IF value.t = "object" THEN Str(value[field]) ELSE TypeError

(* --------------------------- collaborators ---------------------------- *)

Schemas_untitled == "untitled"

SchemeNames == {"file", Schemas_untitled}

PathChars == {"/", ".", "a"}

RECURSIVE SeqsUpTo(_)
SeqsUpTo(n) ==
    IF n = 0 THEN {<<>>}
    ELSE LET shorter == SeqsUpTo(n - 1)
         IN shorter \cup {Append(s, c) : s \in {q \in shorter : Len(q) = n - 1}, c \in PathChars}

Paths == SeqsUpTo(MaxPathLen)

Resources == {Uri(s, p) : s \in SchemeNames, p \in Paths}

\* 1-based position of the last occurrence of c in s, 0 when there is none
LastIndexOf(s, c) ==
    LET hits == {i \in 1..Len(s) : s[i] = c}
    IN IF hits = {} THEN 0 ELSE CHOOSE i \in hits : \A j \in hits : j <= i

RECURSIVE basename(_)
basename(path) ==
    LET idx == LastIndexOf(path, "/")
    IN IF idx = 0 THEN path
       ELSE IF idx = Len(path) THEN basename(SubSeq(path, 1, Len(path) - 1))
       ELSE SubSeq(path, idx + 1, Len(path))

extname(path) ==
    LET base == basename(path)
        idx == LastIndexOf(base, ".")
    IN IF idx = 0 THEN <<>> ELSE SubSeq(base, idx, Len(base))

\* paths.basename(arg): the call does not run when evaluating arg raised
paths_basename(arg) == IF arg = TypeError THEN TypeError ELSE Str(basename(arg.v))

\* paths.extname(arg): the call does not run when evaluating arg raised
paths_extname(arg) == IF arg = TypeError THEN TypeError ELSE Str(extname(arg.v))

\* the language resolver: one language is registered for the extension ".a"
getModeIdByFilepathOrFirstLine(path) ==
    IF path = TypeError THEN TypeError
    ELSE IF extname(path.v) = <<".", "a">> THEN Str(<<"a">>) ELSE Undefined

\* the file service handles a resource when a provider is registered for its scheme
canHandleResource(resource, provs) ==
    IF resource.t = "object" THEN Bool(resource.scheme \in provs) ELSE TypeError

(* ------------------------- the context keys --------------------------- *)

Scheme == "resourceScheme"

Filename == "resourceFilename"

LangId == "resourceLangId"

Resource == "resource"

Extension == "resourceExtname"

HasResource == "resourceSet"

IsFileSystemResource == "isFileSystemResource"

IsFileSystemResourceOrUntitled == "isFileSystemResourceOrUntitled"

Keys == {Scheme, Filename, LangId, Resource, Extension, HasResource,
         IsFileSystemResource, IsFileSystemResourceOrUntitled}

\* the default value each RawContextKey is declared with
DefaultValue(key) ==
    IF key \in {HasResource, IsFileSystemResource, IsFileSystemResourceOrUntitled}
    THEN Bool(FALSE) ELSE Undefined

\* the context as bindTo leaves it: every key at its default
Defaults == [key \in Keys |-> DefaultValue(key)]

\* IContextKey.set run inside a method body: once an exception has been
\* raised the rest of the body does not run; evaluating the argument may
\* itself raise
KeySet(s, key, value) ==
    IF s.threw THEN s
    ELSE IF value = TypeError THEN [s EXCEPT !.threw = TRUE]
    ELSE [s EXCEPT !.ctx[key] = value]

\* IContextKey.reset: back to the declared default
KeyReset(s, key) == [s EXCEPT !.ctx[key] = DefaultValue(key)]

\* IContextKey.get
KeyGet(s, key) == s.ctx[key]

(* ------------------------ ResourceContextKey -------------------------- *)

\* variant: the subscription is not handed to _register
registerForgotten(store, d) == store

\* this._register(d): the disposable is recorded for dispose()
register(store, d) == store \cup {d}

\* variant: the combined key is computed from isFileSystemResource as it
\* was before the listener wrote it
handlerResultStaleOr(c, provs) ==
    LET s0 == [ctx |-> c, threw |-> FALSE]
        resource == KeyGet(s0, Resource)
        s1 == KeySet(s0, IsFileSystemResource,
                     JsAnd(resource, canHandleResource(resource, provs)))
        s2 == KeySet(s1, IsFileSystemResourceOrUntitled,
                     JsOr(KeyGet(s0, IsFileSystemResource),
                          StrictEq(KeyGet(s1, Scheme), Str(Schemas_untitled))))
    IN s2

\* variant: the listener also refreshes resourceSet
handlerResultAlsoHasResource(c, provs) ==
    LET s0 == [ctx |-> c, threw |-> FALSE]
        resource == KeyGet(s0, Resource)
        s1 == KeySet(s0, IsFileSystemResource,
                     JsAnd(resource, canHandleResource(resource, provs)))
        s2 == KeySet(s1, IsFileSystemResourceOrUntitled,
                     JsOr(KeyGet(s1, IsFileSystemResource),
                          StrictEq(KeyGet(s1, Scheme), Str(Schemas_untitled))))
        s3 == KeySet(s2, HasResource, KeyGet(s2, IsFileSystemResourceOrUntitled))
    IN s3

\* the listener of onDidChangeFileSystemProviderRegistrations
handlerResult(c, provs) ==
    LET s0 == [ctx |-> c, threw |-> FALSE]
        resource == KeyGet(s0, Resource)
        s1 == KeySet(s0, IsFileSystemResource,
                     JsAnd(resource, canHandleResource(resource, provs)))
        s2 == KeySet(s1, IsFileSystemResourceOrUntitled,
                     JsOr(KeyGet(s1, IsFileSystemResource),
                          StrictEq(KeyGet(s1, Scheme), Str(Schemas_untitled))))
    IN s2

\* variant: the combined key is computed before the scheme key is written
setResultStaleScheme(c, value, provs) ==
    LET s0 == [ctx |-> c, threw |-> FALSE]
        s1 == KeySet(s0, Resource, value)
        s2 == KeySet(s1, Scheme, JsAnd(value, Prop(value, "scheme")))
        s3 == KeySet(s2, Filename, JsAnd(value, paths_basename(Prop(value, "fsPath"))))
        s4 == KeySet(s3, LangId,
                     JsAnd(value, getModeIdByFilepathOrFirstLine(Prop(value, "fsPath"))))
        s5 == KeySet(s4, Extension, JsAnd(value, paths_extname(Prop(value, "fsPath"))))
        s6 == KeySet(s5, HasResource, JsNotNot(value))
        s7 == KeySet(s6, IsFileSystemResource,
                     JsAnd(value, canHandleResource(value, provs)))
        s8 == KeySet(s7, IsFileSystemResourceOrUntitled,
                     JsOr(KeyGet(s7, IsFileSystemResource),
                          StrictEq(KeyGet(s0, Scheme), Str(Schemas_untitled))))
    IN s8

setResult(c, value, provs) ==
    LET s0 == [ctx |-> c, threw |-> FALSE]
        s1 == KeySet(s0, Resource, value)
        s2 == KeySet(s1, Scheme, JsAnd(value, Prop(value, "scheme")))
        s3 == KeySet(s2, Filename, JsAnd(value, paths_basename(Prop(value, "fsPath"))))
        s4 == KeySet(s3, LangId,
                     JsAnd(value, getModeIdByFilepathOrFirstLine(Prop(value, "fsPath"))))
        s5 == KeySet(s4, Extension, JsAnd(value, paths_extname(Prop(value, "fsPath"))))
        s6 == KeySet(s5, HasResource, JsNotNot(value))
        s7 == KeySet(s6, IsFileSystemResource,
                     JsAnd(value, canHandleResource(value, provs)))
        s8 == KeySet(s7, IsFileSystemResourceOrUntitled,
                     JsOr(KeyGet(s7, IsFileSystemResource),
                          StrictEq(KeyGet(s7, Scheme), Str(Schemas_untitled))))
    IN s8

\* variant: the extension key is left out of reset
resetResultKeepsExtension(c) ==
    LET s0 == [ctx |-> c, threw |-> FALSE]
        s1 == KeyReset(s0, Scheme)
        s2 == KeyReset(s1, LangId)
        s3 == KeyReset(s2, Resource)
        s4 == KeyReset(s3, LangId)
        s6 == KeyReset(s4, HasResource)
    IN s6

\* variant: the scheme key is left out of reset
resetResultKeepsScheme(c) ==
    LET s0 == [ctx |-> c, threw |-> FALSE]
        s2 == KeyReset(s0, LangId)
        s3 == KeyReset(s2, Resource)
        s4 == KeyReset(s3, LangId)
        s5 == KeyReset(s4, Extension)
        s6 == KeyReset(s5, HasResource)
    IN s6

resetResult(c) ==
    LET s0 == [ctx |-> c, threw |-> FALSE]
        s1 == KeyReset(s0, Scheme)
        s2 == KeyReset(s1, LangId)
        s3 == KeyReset(s2, Resource)
        s4 == KeyReset(s3, LangId)
        s5 == KeyReset(s4, Extension)
        s6 == KeyReset(s5, HasResource)
    IN s6

\* variant: get reads the scheme key instead of the resource key
getResultWrongKey(c) == KeyGet([ctx |-> c, threw |-> FALSE], Scheme)

getResult(c) == KeyGet([ctx |-> c, threw |-> FALSE], Resource)

(* ----------------------------- the state ------------------------------ *)

TypeOK ==
    /\ DOMAIN ctx = Keys
    /\ providers \subseteq SchemeNames
    /\ pending \in 0..MaxPending
    /\ toDispose \subseteq {"listener"}
    /\ listening \in BOOLEAN
    /\ disposed \in BOOLEAN
    /\ threw \in BOOLEAN

\* the state after construction: every key bound at its default, the
\* listener attached and registered for disposal
Init ==
    /\ ctx = Defaults
    /\ providers \in SUBSET SchemeNames
    /\ pending = 0
    /\ toDispose = register({}, "listener")
    /\ listening = TRUE
    /\ disposed = FALSE
    /\ threw = FALSE
    /\ returned = Undefined
    /\ lastOp = [op |-> "new", arg |-> Undefined]
    /\ held = Undefined
    /\ dataPath = <<>>
    /\ metadata = <<>>
    /\ parsed = FALSE

(* ---------------------------- operations ------------------------------ *)

set(value) ==
    LET r == setResult(ctx, value, providers)
    IN /\ ctx' = r.ctx
       /\ threw' = r.threw
       /\ returned' = Undefined
       /\ UNCHANGED <<providers, pending, toDispose, listening, disposed>>

reset ==
    LET r == resetResult(ctx)
    IN /\ ctx' = r.ctx
       /\ threw' = r.threw
       /\ returned' = Undefined
       /\ UNCHANGED <<providers, pending, toDispose, listening, disposed>>

get ==
    /\ returned' = getResult(ctx)
    /\ threw' = FALSE
    /\ UNCHANGED <<ctx, providers, pending, toDispose, listening, disposed>>

\* a provider is registered for a scheme; the change event is raised
registerProvider(scheme) ==
    /\ scheme \notin providers
    /\ pending < MaxPending
    /\ providers' = providers \cup {scheme}
    /\ pending' = pending + 1
    /\ UNCHANGED <<ctx, toDispose, listening, disposed, threw, returned>>

\* a provider registration is disposed; the change event is raised
unregisterProvider(scheme) ==
    /\ scheme \in providers
    /\ pending < MaxPending
    /\ providers' = providers \ {scheme}
    /\ pending' = pending + 1
    /\ UNCHANGED <<ctx, toDispose, listening, disposed, threw, returned>>

\* a raised change event reaches the listeners still attached
fire ==
    /\ pending > 0
    /\ pending' = pending - 1
    /\ IF listening
       THEN LET r == handlerResult(ctx, providers)
            IN ctx' = r.ctx /\ threw' = r.threw
       ELSE UNCHANGED <<ctx, threw>>
    /\ returned' = Undefined
    /\ UNCHANGED <<providers, toDispose, listening, disposed>>

\* Disposable.dispose: everything registered is disposed
dispose ==
    /\ ~disposed
    /\ disposed' = TRUE
    /\ listening' = IF "listener" \in toDispose THEN FALSE ELSE listening
    /\ toDispose' = {}
    /\ returned' = Undefined
    /\ UNCHANGED <<ctx, providers, pending, threw>>

(* lastOp records the operation that produced the state and held the      *)
(* argument of the latest set (undefined after construction or reset).    *)

SetOp ==
    \E value \in Resources \cup {Undefined} :
        /\ set(value)
        /\ lastOp' = [op |-> "set", arg |-> value]
        /\ held' = value
        /\ UNCHANGED parseVars

ResetOp ==
    /\ reset
    /\ lastOp' = [op |-> "reset", arg |-> Undefined]
    /\ held' = Undefined
    /\ UNCHANGED parseVars

GetOp ==
    /\ get
    /\ lastOp' = [op |-> "get", arg |-> Undefined]
    /\ UNCHANGED <<held, parseVars>>

RegisterOp ==
    \E scheme \in SchemeNames :
        /\ registerProvider(scheme)
        /\ lastOp' = [op |-> "registerProvider", arg |-> Str(scheme)]
        /\ UNCHANGED <<held, parseVars>>

UnregisterOp ==
    \E scheme \in SchemeNames :
        /\ unregisterProvider(scheme)
        /\ lastOp' = [op |-> "unregisterProvider", arg |-> Str(scheme)]
        /\ UNCHANGED <<held, parseVars>>

\* arg tells whether the listener was still attached when the event arrived
FireOp ==
    /\ fire
    /\ lastOp' = [op |-> "fire", arg |-> Bool(listening)]
    /\ UNCHANGED <<held, parseVars>>

DisposeOp ==
    /\ dispose
    /\ lastOp' = [op |-> "dispose", arg |-> Undefined]
    /\ UNCHANGED <<held, parseVars>>

Next ==
    \/ SetOp
    \/ ResetOp
    \/ GetOp
    \/ RegisterOp
    \/ UnregisterOp
    \/ FireOp
    \/ DisposeOp

Spec == Init /\ [][Next]_vars

(* ------------------------------ DataUri ------------------------------- *)

\* A data URI path is a sequence of symbols: the separators ";" and ":"
\* and the letters "a", "b" and "mime"; "mime" stands for the text of the
\* reserved key, which the other letters cannot spell.
META_DATA_MIME == <<"mime">>

Words == {<<>>, <<"a">>, <<"b">>, META_DATA_MIME}

ShortWords == {<<>>, <<"a">>}

\* the ';'-free texts a path is assembled from: a word, two words around a
\* ':', or three short words around two ':'
Tokens ==
    Words
    \cup {k \o <<":">> \o v : k \in Words, v \in Words}
    \cup {k \o <<":">> \o v \o <<":">> \o w : k \in ShortWords, v \in ShortWords, w \in ShortWords}

\* the texts tried before the first ';' and after the last ';'
Mimes == {<<>>, <<"a">>, META_DATA_MIME}

Tails == {<<>>, <<"a">>, <<"a", ":", "a">>}

\* the tokens, each preceded by ';'
RECURSIVE Joined(_)
Joined(toks) ==
    IF Len(toks) = 0 THEN <<>> ELSE <<";">> \o toks[1] \o Joined(SubSeq(toks, 2, Len(toks)))

\* the paths parsed: without ';', or MIME;token;...;token;TAIL
DataPathsOf(k) ==
    {first \o Joined(toks) \o <<";">> \o last :
        first \in Mimes, toks \in [1..k -> Tokens], last \in Tails}

\* String.prototype.indexOf, 0-based, -1 when c does not occur
indexOf(s, c) ==
    LET hits == {i \in 1..Len(s) : s[i] = c}
    IN IF hits = {} THEN -1 ELSE (CHOOSE i \in hits : \A j \in hits : i <= j) - 1

\* String.prototype.lastIndexOf, 0-based, -1 when c does not occur
lastIndexOf(s, c) == LastIndexOf(s, c) - 1

\* variant: String.prototype.slice, where a negative index counts from the
\* end and start > end gives the empty string
slice(s, start, end) ==
    LET from == IF start < 0 THEN IF Len(s) + start < 0 THEN 0 ELSE Len(s) + start
                ELSE IF start > Len(s) THEN Len(s) ELSE start
        to == IF end < 0 THEN IF Len(s) + end < 0 THEN 0 ELSE Len(s) + end
              ELSE IF end > Len(s) THEN Len(s) ELSE end
    IN IF from >= to THEN <<>> ELSE SubSeq(s, from + 1, to)

\* String.prototype.substring: each index is clamped to 0..length and the
\* two are swapped when start > end
substring(s, start, end) ==
    LET from == IF start < 0 THEN 0 ELSE IF start > Len(s) THEN Len(s) ELSE start
        to == IF end < 0 THEN 0 ELSE IF end > Len(s) THEN Len(s) ELSE end
        lo == IF from <= to THEN from ELSE to
        hi == IF from <= to THEN to ELSE from
    IN SubSeq(s, lo + 1, hi)

\* String.prototype.split on a one-character separator: every occurrence
\* separates, the empty string gives one empty part
RECURSIVE split(_, _)
split(s, sep) ==
    LET i == indexOf(s, sep)
    IN IF i = -1 THEN <<s>>
       ELSE <<SubSeq(s, 1, i)>> \o split(SubSeq(s, i + 2, Len(s)), sep)

\* Map.set
MapSet(map, key, value) ==
    [k \in DOMAIN map \cup {key} |-> IF k = key THEN value ELSE map[k]]

\* variant: the region runs from the first ';' to the end of the path
metaToEnd(path) == substring(path, indexOf(path, ";") + 1, Len(path))

\* the text between the first and the last ';'
meta(path) == substring(path, indexOf(path, ";") + 1, lastIndexOf(path, ";"))

\* [key, value] = property.split(':') : the first part
propertyKey(prop) == Str(split(prop, ":")[1])

\* [key, value] = property.split(':') : the second part, undefined when
\* there is none
propertyValue(prop) ==
    LET parts == split(prop, ":")
    IN IF Len(parts) >= 2 THEN Str(parts[2]) ELSE Undefined

\* the body of the forEach callback
property(map, prop) ==
    IF Truthy(propertyKey(prop)) /\ Truthy(propertyValue(prop))
    THEN MapSet(map, propertyKey(prop).v, propertyValue(prop).v)
    ELSE map

\* variant: the loop ends at the first property that is not inserted
RECURSIVE forEachUntilSkipped(_, _)
forEachUntilSkipped(props, map) ==
    IF props = <<>> THEN map
    ELSE IF ~(Truthy(propertyKey(Head(props))) /\ Truthy(propertyValue(Head(props))))
         THEN map
    ELSE forEachUntilSkipped(Tail(props), property(map, Head(props)))

\* meta.split(';').forEach(...)
RECURSIVE forEach(_, _)
forEach(props, map) ==
    IF props = <<>> THEN map
    ELSE forEach(Tail(props), property(map, Head(props)))

\* the text before the first ';'
mime(path) == substring(path, 0, indexOf(path, ";"))

\* variant: the mime entry is stored first and the properties after it
parseMetaDataMimeFirst(path) ==
    LET m0 == <<>>
        m1 == IF Truthy(Str(mime(path))) THEN MapSet(m0, META_DATA_MIME, mime(path)) ELSE m0
        m2 == forEach(split(meta(path), ";"), m1)
    IN m2

parseMetaData(path) ==
    LET m0 == <<>>
        m1 == forEach(split(meta(path), ";"), m0)
        m2 == IF Truthy(Str(mime(path))) THEN MapSet(m1, META_DATA_MIME, mime(path)) ELSE m1
    IN m2

\* a path has been chosen and parseMetaData has not run yet
ParseInit ==
    /\ ctx = Defaults
    /\ providers = {}
    /\ pending = 0
    /\ toDispose = register({}, "listener")
    /\ listening = TRUE
    /\ disposed = FALSE
    /\ threw = FALSE
    /\ returned = Undefined
    /\ lastOp = [op |-> "new", arg |-> Undefined]
    /\ held = Undefined
    /\ \/ dataPath \in Tokens
       \/ \E k \in 0..MaxTokens : dataPath \in DataPathsOf(k)
    /\ metadata = <<>>
    /\ parsed = FALSE

ParseOp ==
    /\ ~parsed
    /\ metadata' = parseMetaData(dataPath)
    /\ parsed' = TRUE
    /\ UNCHANGED <<ctx, providers, pending, toDispose, listening, disposed,
                   threw, returned, lastOp, held, dataPath>>

ParseNext == ParseOp

ParseSpec == ParseInit /\ [][ParseNext]_vars

(* ------------------------------ claims -------------------------------- *)

ResourceFacts == {Resource, Scheme, Filename, LangId, Extension}

\* C1: right after set(R) with a resource R, get() returns R and every key
\* holds the value derived from R: scheme, basename, language id, extname,
\* resourceSet true, isFileSystemResource the file service's answer for R
\* at that moment, and the combined key the OR of that answer and
\* "scheme is untitled"; nothing is left from an earlier resource.
C1_SetDerivesAllFacts ==
    (lastOp.op = "set" /\ lastOp.arg.t = "object") =>
        LET R == lastOp.arg
        IN /\ getResult(ctx) = R
           /\ ctx[Scheme] = Str(R.scheme)
           /\ ctx[Filename] = Str(basename(R.fsPath))
           /\ ctx[LangId] = getModeIdByFilepathOrFirstLine(Str(R.fsPath))
           /\ ctx[Extension] = Str(extname(R.fsPath))
           /\ ctx[HasResource] = Bool(TRUE)
           /\ ctx[IsFileSystemResource] = Bool(R.scheme \in providers)
           /\ ctx[IsFileSystemResourceOrUntitled] =
                  Bool(R.scheme \in providers \/ R.scheme = Schemas_untitled)

\* set of a file resource with an extension, no provider for its scheme,
\* after a provider change whose event is still to be delivered
C1_Witness ==
    /\ lastOp.op = "set"
    /\ lastOp.arg = Uri("file", <<".", "a">>)
    /\ "file" \notin providers
    /\ pending > 0
    /\ ctx[IsFileSystemResourceOrUntitled] = Bool(FALSE)

\* C2 (invariant I2): in every reachable state the combined key equals
\* (isFileSystemResource OR scheme = "untitled") of the current keys.
C2_CombinedKeyIsTheOr ==
    ctx[IsFileSystemResourceOrUntitled] =
        Bool(Truthy(ctx[IsFileSystemResource]) \/ ctx[Scheme] = Str(Schemas_untitled))

\* C3 (invariant I3): whenever no resource is held, the resource, scheme,
\* filename, language id and extension keys are absent and resourceSet is
\* false.
C3_NoResourceMeansCleared ==
    (getResult(ctx) = Undefined) =>
        /\ \A key \in ResourceFacts : ctx[key] = Undefined
        /\ ctx[HasResource] = Bool(FALSE)

\* C4: after reset every key is back at its declared default, i.e. the
\* context equals the one construction produced.
C4_ResetRestoresDefaults ==
    (lastOp.op = "reset") => ctx = Defaults

\* C5: when the listener handles a provider change while a resource R (the
\* argument of the latest set) is held, afterwards isFileSystemResource is
\* the file service's current answer for R and the combined key is that
\* answer OR "R's scheme is untitled".
C5_HandlerReconciles ==
    (lastOp.op = "fire" /\ lastOp.arg = Bool(TRUE) /\ held.t = "object") =>
        /\ ctx[IsFileSystemResource] = Bool(held.scheme \in providers)
        /\ ctx[IsFileSystemResourceOrUntitled] =
               Bool(held.scheme \in providers \/ held.scheme = Schemas_untitled)

\* the listener ran for a held file resource whose scheme now has a provider
C5_Witness ==
    /\ lastOp.op = "fire"
    /\ lastOp.arg = Bool(TRUE)
    /\ held.t = "object"
    /\ held.scheme = "file"
    /\ "file" \in providers
    /\ ctx[IsFileSystemResource] = Bool(TRUE)

\* C6: delivering a provider change leaves the resource, scheme, filename,
\* language id, extension and resourceSet keys as they were.
C6_HandlerFrame ==
    [][lastOp'.op = "fire" =>
          \A key \in ResourceFacts \cup {HasResource} : ctx'[key] = ctx[key]]_vars

\* the listener ran for a held untitled resource and left it in place
C6_Witness ==
    /\ lastOp.op = "fire"
    /\ lastOp.arg = Bool(TRUE)
    /\ ctx[Resource].t = "object"
    /\ ctx[Scheme] = Str(Schemas_untitled)
    /\ ctx[HasResource] = Bool(TRUE)
    /\ ctx[IsFileSystemResource] = Bool(FALSE)

\* C7: once disposed, delivering a provider change (also one raised before
\* dispose) writes no key.
C7_NoWriteAfterDispose ==
    [][(disposed /\ lastOp'.op = "fire") => ctx' = ctx]_vars

\* a provider change arrived after dispose and the keys were left stale
\* with respect to the file service's current answer
C7_Witness ==
    /\ disposed
    /\ lastOp.op = "fire"
    /\ lastOp.arg = Bool(FALSE)
    /\ held.t = "object"
    /\ ctx[IsFileSystemResource] # Bool(held.scheme \in providers)

\* C9: set(undefined) raises no error and leaves the resource, scheme,
\* filename, language id and extension keys absent and resourceSet false.
C9_SetAbsentClears ==
    (lastOp.op = "set" /\ lastOp.arg = Undefined) =>
        /\ ~threw
        /\ \A key \in ResourceFacts : ctx[key] = Undefined
        /\ ctx[HasResource] = Bool(FALSE)

\* set(undefined) has run to its end: the last two keys were written too
C9_Witness ==
    /\ lastOp.op = "set"
    /\ lastOp.arg = Undefined
    /\ ctx[IsFileSystemResource] = Undefined
    /\ ctx[IsFileSystemResourceOrUntitled] = Bool(FALSE)
    /\ pending > 0

\* C10: get() returns the resource key's current value, which is the
\* argument of the latest set (undefined after construction or reset), and
\* writes no key.
C10_GetIsPureRead ==
    [][lastOp'.op = "get" =>
          /\ returned' = ctx[Resource]
          /\ returned' = held
          /\ ctx' = ctx]_vars

\* get() has returned a held resource
C10_Witness ==
    /\ lastOp.op = "get"
    /\ returned.t = "object"
    /\ returned.scheme = Schemas_untitled
    /\ ctx[HasResource] = Bool(TRUE)

(* Vocabulary of the parseMetaData claims: the path is read by the       *)
(* positions of its separators, independently of how the parser cuts it.  *)

Semis(p) == {i \in 1..Len(p) : p[i] = ";"}

\* the text before the first ';' (empty when there is no ';')
MimeText(p) ==
    IF Semis(p) = {} THEN <<>>
    ELSE SubSeq(p, 1, (CHOOSE i \in Semis(p) : \A j \in Semis(p) : i <= j) - 1)

\* the tokens of the metadata region: the texts between two consecutive
\* ';', each with the position of the ';' that opens it
RegionTokens(p) ==
    {[at |-> i, text |-> SubSeq(p, i + 1, j - 1)] :
        <<i, j>> \in {q \in Semis(p) \X Semis(p) :
                        q[1] < q[2] /\ \A m \in Semis(p) : ~(q[1] < m /\ m < q[2])}}

Colons(t) == {i \in 1..Len(t) : t[i] = ":"}

FirstColon(t) == CHOOSE i \in Colons(t) : \A j \in Colons(t) : i <= j

\* the text before the first ':' (the whole token when there is no ':')
KeyText(t) == IF Colons(t) = {} THEN t ELSE SubSeq(t, 1, FirstColon(t) - 1)

\* all of the text after the first ':' (empty when there is no ':')
RestText(t) == IF Colons(t) = {} THEN <<>> ELSE SubSeq(t, FirstColon(t) + 1, Len(t))

\* key:value with exactly one ':' and neither side empty
WellFormed(t) == Cardinality(Colons(t)) = 1 /\ KeyText(t) # <<>> /\ RestText(t) # <<>>

\* the key or the value is missing
Missing(t) == Colons(t) = {} \/ KeyText(t) = <<>> \/ RestText(t) = <<>>

\* split once on ':' the token has a non-empty key and a non-empty value:
\* the tokens that are to be inserted
HasKeyAndValue(t) == ~Missing(t)

\* the last token of the region with key k that has a key and a value
LastWithKey(p, k) ==
    CHOOSE t \in RegionTokens(p) :
        /\ HasKeyAndValue(t.text) /\ KeyText(t.text) = k
        /\ \A u \in RegionTokens(p) :
              (HasKeyAndValue(u.text) /\ KeyText(u.text) = k) => u.at <= t.at

\* the keys that several such tokens of the region share
RepeatedKeys(p) ==
    {KeyText(t.text) : t \in {u \in RegionTokens(p) :
        /\ HasKeyAndValue(u.text)
        /\ \E w \in RegionTokens(p) :
              w.at # u.at /\ HasKeyAndValue(w.text) /\ KeyText(w.text) = KeyText(u.text)}}

\* MIME;k1:v1;...;kn:vn;TAIL with MIME, keys and values non-empty and free
\* of ':' , the keys pairwise distinct and none of them "mime"
C11_Form(p) ==
    /\ Semis(p) # {}
    /\ MimeText(p) # <<>>
    /\ Colons(MimeText(p)) = {}
    /\ \A t \in RegionTokens(p) :
          /\ WellFormed(t.text)
          /\ KeyText(t.text) # META_DATA_MIME
          /\ \A u \in RegionTokens(p) :
                KeyText(u.text) = KeyText(t.text) => u.at = t.at

\* C11: for a path MIME;k1:v1;...;kn:vn;base64,PAYLOAD of that form,
\* parseMetaData returns exactly {mime -> MIME, k1 -> v1, ..., kn -> vn}:
\* nothing is missing and nothing else (nothing for the last segment) is
\* present.
C11_WellFormedPathParsesExactly ==
    (parsed /\ C11_Form(dataPath)) =>
        /\ DOMAIN metadata =
               {META_DATA_MIME} \cup {KeyText(t.text) : t \in RegionTokens(dataPath)}
        /\ metadata[META_DATA_MIME] = MimeText(dataPath)
        /\ \A t \in RegionTokens(dataPath) :
              metadata[KeyText(t.text)] = RestText(t.text)

\* a path of that form with two tokens and a last segment that itself
\* reads as key:value has been parsed
C11_Witness ==
    /\ parsed
    /\ C11_Form(dataPath)
    /\ Cardinality(RegionTokens(dataPath)) = 2
    /\ dataPath[Len(dataPath)] = "a"
    /\ dataPath[Len(dataPath) - 1] = ":"
    /\ Cardinality(DOMAIN metadata) = 3

\* C12: for a path without ';' parseMetaData returns the empty mapping.
C12_NoSemicolonGivesEmpty ==
    (parsed /\ Semis(dataPath) = {}) => DOMAIN metadata = {}

\* a path without ';' that reads as key:value has been parsed
C12_Witness ==
    /\ parsed
    /\ Semis(dataPath) = {}
    /\ WellFormed(dataPath)
    /\ DOMAIN metadata = {}

C14_MalformedTokensAreSkipped ==
    parsed =>
        /\ \A k \in DOMAIN metadata : k # <<>> /\ metadata[k] # <<>>
        /\ \A t \in RegionTokens(dataPath) :
              WellFormed(t.text) => KeyText(t.text) \in DOMAIN metadata
        /\ \A k \in DOMAIN metadata :
              \/ k = META_DATA_MIME /\ MimeText(dataPath) # <<>>
              \/ \E t \in RegionTokens(dataPath) :
                    ~Missing(t.text) /\ KeyText(t.text) = k

\* a token without value precedes a well-formed token, which was inserted
C14_Witness ==
    /\ parsed
    /\ \E t \in RegionTokens(dataPath), u \in RegionTokens(dataPath) :
          /\ t.at < u.at
          /\ Missing(t.text)
          /\ t.text # <<>>
          /\ WellFormed(u.text)
          /\ KeyText(u.text) \in DOMAIN metadata
          /\ KeyText(t.text) \notin DOMAIN metadata

\* C15: resourceSet, isFileSystemResource and isFileSystemResourceOrUntitled
\* hold a boolean in every reachable state.
C15_BooleanKeysHoldBooleans ==
    \A key \in {HasResource, IsFileSystemResource, IsFileSystemResourceOrUntitled} :
        ctx[key].t = "boolean"

\* C16: a token with more than one ':' gives the entry key -> all of the
\* text after the first ':' when both are non-empty (for a key that no
\* other token carries and that the mime entry does not overwrite).
C16_SplitOnce ==
    parsed =>
        \A t \in RegionTokens(dataPath) :
            ( /\ Cardinality(Colons(t.text)) > 1
              /\ KeyText(t.text) # <<>>
              /\ RestText(t.text) # <<>>
              /\ KeyText(t.text) # META_DATA_MIME
              /\ \A u \in RegionTokens(dataPath) :
                    KeyText(u.text) = KeyText(t.text) => u.at = t.at )
            => /\ KeyText(t.text) \in DOMAIN metadata
               /\ metadata[KeyText(t.text)] = RestText(t.text)

\* C17: in every reachable state resourceSet is true exactly when the
\* resource key is present, and the scheme, language id and extension keys
\* are those derived from the held resource (absent when none is held).
C17_DerivedKeysFollowResource ==
    LET R == ctx[Resource]
    IN /\ ctx[HasResource] = Bool(R.t = "object")
       /\ R.t = "object" =>
             /\ ctx[Scheme] = Str(R.scheme)
             /\ ctx[LangId] = getModeIdByFilepathOrFirstLine(Str(R.fsPath))
             /\ ctx[Extension] = Str(extname(R.fsPath))
       /\ R.t # "object" =>
             /\ R = Undefined
             /\ ctx[Scheme] = Undefined
             /\ ctx[LangId] = Undefined
             /\ ctx[Extension] = Undefined

\* reset has cleared the four keys of a resource that had all of them
C17_Witness ==
    /\ lastOp.op = "reset"
    /\ ctx[Filename] = Str(<<".", "a">>)
    /\ ctx[Extension] = Undefined
    /\ ctx[Scheme] = Undefined
    /\ ctx[HasResource] = Bool(FALSE)

\* C18: when the listener handles a provider change while no resource is
\* held, afterwards isFileSystemResource is not true and
\* isFileSystemResourceOrUntitled is false, whatever the file service
\* answers.
C18_HandlerWithoutResource ==
    (lastOp.op = "fire" /\ lastOp.arg = Bool(TRUE) /\ ctx[Resource].t # "object") =>
        /\ ctx[IsFileSystemResource] # Bool(TRUE)
        /\ ctx[IsFileSystemResourceOrUntitled] = Bool(FALSE)

\* the listener ran after reset had dropped an untitled resource, with a
\* provider registered for "untitled"
C18_Witness ==
    /\ lastOp.op = "fire"
    /\ lastOp.arg = Bool(TRUE)
    /\ ctx[Resource] = Undefined
    /\ ctx[Filename].t = "string"
    /\ Schemas_untitled \in providers
    /\ ctx[IsFileSystemResourceOrUntitled] = Bool(FALSE)

\* C19: when the text before the first ';' is non-empty the mime entry is
\* exactly that text, also when a token of the region has the key "mime";
\* when it is empty a mime entry can only come from such a token.
C19_MimeEntryWins ==
    (parsed /\ Semis(dataPath) # {}) =>
        /\ MimeText(dataPath) # <<>> =>
              /\ META_DATA_MIME \in DOMAIN metadata
              /\ metadata[META_DATA_MIME] = MimeText(dataPath)
        /\ MimeText(dataPath) = <<>> =>
              (META_DATA_MIME \in DOMAIN metadata =>
                  \E t \in RegionTokens(dataPath) :
                      /\ ~Missing(t.text)
                      /\ KeyText(t.text) = META_DATA_MIME
                      /\ metadata[META_DATA_MIME] # <<>>)

\* a path with the MIME text "a" and a token mime:b has been parsed
C19_Witness ==
    /\ parsed
    /\ MimeText(dataPath) = <<"a">>
    /\ \E t \in RegionTokens(dataPath) : t.text = <<"mime", ":", "b">>
    /\ metadata[META_DATA_MIME] = <<"a">>

====
